---- MODULE Spec2Model ----
(***************************************************************************)
(* Model of src/app1.py, the production delivery dashboard: load_data      *)
(* (header normalization, type coercion, derived metrics), the date        *)
(* slicers, the person matrix with its drilldown and grand total, and the  *)
(* remark / lead time summaries.                                           *)
(*                                                                         *)
(* Text is a sequence of one-character strings, so that strip, the numeric *)
(* clean-up and the parsers are computed character by character.           *)
(* Amounts are held in tenths (the cell "2.5" is 25, "10" is 100).         *)
(* Timestamps are half days of the year 2025 (2025-01-10 00:00 is 20,      *)
(* 2025-01-10 12:00 is 21); a calendar date is a day number (10).          *)
(* A nullable value is <<>> (NaN / NaT) or <<v>>.                          *)
(* Ratios (percentages, means) are exact fractions <<n, d>> in lowest      *)
(* terms; <<s, 0>> is what a float division by zero leaves (inf or nan).   *)
(* The clock `now` counts seconds; `cache` holds the entry of load_data     *)
(* under st.cache_data(ttl=600), and `last_load` records what the last     *)
(* call of load_data did (body run or entry returned) and the entries a    *)
(* refresh cleared before it.                                              *)
(***************************************************************************)
EXTENDS Integers, Sequences, FiniteSets, TLC

VARIABLES client, source, cache, now, last_load, session_state, pc, messages, df_full,
          df, windows, matrix, drilldown, grand_total, charts

vars == <<client, source, cache, now, last_load, session_state, pc, messages, df_full,
          df, windows, matrix, drilldown, grand_total, charts>>

(***************************************************************************)
(* Bounds of the model.                                                    *)
(***************************************************************************)
MaxRows == 2

Today == 50

MaxPick == 2

\* The clock runs from 0 to MaxClock seconds in steps of ClockStep.
MaxClock == 900

ClockStep == 300

(***************************************************************************)
(* Text.                                                                   *)
(***************************************************************************)
Digits == <<"0", "1", "2", "3", "4", "5", "6", "7", "8", "9">>

IsDigit(c) == \E i \in 1..Len(Digits) : Digits[i] = c

DigitVal(c) == (CHOOSE i \in 1..Len(Digits) : Digits[i] = c) - 1

RECURSIVE NatOf(_)
NatOf(s) ==
    IF s = <<>> THEN 0
    ELSE NatOf(SubSeq(s, 1, Len(s) - 1)) * 10 + DigitVal(s[Len(s)])

IsSpace(c) == c \in {" ", "\t", "\n"}

RECURSIVE LStrip(_)
LStrip(s) == IF s # <<>> /\ IsSpace(Head(s)) THEN LStrip(Tail(s)) ELSE s

RECURSIVE RStrip(_)
RStrip(s) ==
    IF s # <<>> /\ IsSpace(s[Len(s)]) THEN RStrip(SubSeq(s, 1, Len(s) - 1)) ELSE s

\* str.strip()
Strip(s) == RStrip(LStrip(s))

\* str(n) of a natural number.
RECURSIVE DecStr(_)
DecStr(n) ==
    IF n < 10 THEN <<Digits[n + 1]>> ELSE Append(DecStr(n \div 10), Digits[(n % 10) + 1])

\* Column labels and texts of the sheet.
PERSON_COL == <<"C", "O", "N", "T", ".", "P", "E", "R", "S", "O", "N">>
ORD_WT == <<"O", "R", "D", " ", "W", "T">>
ON_TIME_DEL == <<"O", "N", "_", "T", "I", "M", "E", " ", "D", "E", "L">>
LATE_DEL == <<"L", "A", "T", "E", "_", "D", "E", "L">>
ODR_DATE == <<"O", "D", "R", " ", "D", "A", "T", "E">>
DUE_DATE == <<"D", "U", "E", " ", "D", "A", "T", "E">>
REMARK_COL == <<"L", "A", "T", "E", " ", "D", "E", "L", "I", "V", "E", "R", "Y", " ",
                "R", "E", "A", "S", "O", "N">>
ITEM_COL == <<"I", "T", "E", "M", " ", "N", "A", "M", "E">>
ORD_NO == <<"O", "R", "D", " ", "N", "O">>
PURITY_COL == <<"P", "U", "R", "I", "T", "Y">>
PENDING_ORD == <<"P", "E", "N", "D", "I", "N", "G", " ", "O", "R", "D">>
LATE_DEL_PCT == <<"L", "A", "T", "E", "_", "D", "E", "L", "_", "%">>
LEAD_TIME_COL == <<"L", "E", "A", "D", " ", "T", "I", "M", "E", " ", "(", "D", "A", "Y",
                   "S", ")">>

EXPECTED_DATE_COLS == <<ODR_DATE, DUE_DATE>>
EXPECTED_NUMERIC_COLS == <<ORD_WT, ON_TIME_DEL, LATE_DEL>>
REQUIRED_MATRIX_COLS == <<ORD_WT, ON_TIME_DEL, LATE_DEL, PENDING_ORD, PERSON_COL>>

Range(s) == {s[i] : i \in 1..Len(s)}

(***************************************************************************)
(* Fractions.                                                              *)
(***************************************************************************)
Abs(n) == IF n < 0 THEN -n ELSE n

RECURSIVE Gcd(_, _)
Gcd(a, b) == IF b = 0 THEN a ELSE Gcd(b, a % b)

Sign(n) == IF n < 0 THEN -1 ELSE IF n > 0 THEN 1 ELSE 0

\* n / d as a float division does it: no exception, inf or nan when d = 0.
Div(n, d) ==
    IF d = 0 THEN <<Sign(n), 0>>
    ELSE LET g == Gcd(Abs(n), Abs(d))
         IN  <<Sign(d) * (n \div g), Abs(d) \div g>>

Zero == Div(0, 1)

(***************************************************************************)
(* Data frames: column labels and rows of cells, by position.              *)
(***************************************************************************)
EmptyFrame == [cols |-> <<>>, rows |-> <<>>]

\* DataFrame.empty
IsEmpty(f) == Len(f.cols) = 0 \/ Len(f.rows) = 0

HasCol(f, c) == c \in Range(f.cols)

ColIx(f, c) == CHOOSE i \in 1..Len(f.cols) :
                  /\ f.cols[i] = c
                  /\ \A j \in 1..(i - 1) : f.cols[j] # c

Cell(f, r, c) == f.rows[r][ColIx(f, c)]

\* df[c] = values: replaces the column c, or appends it.
SetCol(f, c, values) ==
    IF HasCol(f, c)
    THEN [f EXCEPT !.rows = [r \in 1..Len(f.rows) |->
                                [f.rows[r] EXCEPT ![ColIx(f, c)] = values[r]]]]
    ELSE [cols |-> Append(f.cols, c),
          rows |-> [r \in 1..Len(f.rows) |-> Append(f.rows[r], values[r])]]

\* The positions of s kept by a test, in order.
RECURSIVE KeepIx(_, _)
KeepIx(n, keep) ==
    IF n = 0 THEN <<>>
    ELSE IF n \in keep THEN Append(KeepIx(n - 1, keep), n) ELSE KeepIx(n - 1, keep)

SelectCols(f, keep) ==
    LET ix == KeepIx(Len(f.cols), keep)
    IN  [cols |-> [k \in 1..Len(ix) |-> f.cols[ix[k]]],
         rows |-> [r \in 1..Len(f.rows) |-> [k \in 1..Len(ix) |-> f.rows[r][ix[k]]]]]

SelectRows(f, keep) ==
    LET ix == KeepIx(Len(f.rows), keep)
    IN  [f EXCEPT !.rows = [k \in 1..Len(ix) |-> f.rows[ix[k]]]]

(***************************************************************************)
(* Type coercion (load_data).                                              *)
(***************************************************************************)
NA == <<"NaN">>

IsNumericChar(c) == IsDigit(c) \/ c = "." \/ c = "-"

\* .str.replace(r'[^\d\.\-]', '', regex=True)
CleanNumeric(cell) == SelectSeq(cell, IsNumericChar)

\* pd.to_numeric(..., errors="coerce") of a cleaned text: an optional minus
\* sign, digits, at most one decimal point and at least one digit; anything
\* else is NaN.  The value is in tenths.
ToNumeric(s) ==
    LET neg  == s # <<>> /\ Head(s) = "-"
        body == IF neg THEN Tail(s) ELSE s
        dots == {i \in 1..Len(body) : body[i] = "."}
        dot  == IF dots = {} THEN Len(body) + 1 ELSE CHOOSE i \in dots : TRUE
        ip   == SubSeq(body, 1, dot - 1)
        fp   == SubSeq(body, dot + 1, Len(body))
        ok   == /\ Cardinality(dots) <= 1
                /\ \A i \in 1..Len(body) : IsDigit(body[i]) \/ body[i] = "."
                /\ Len(ip) + Len(fp) >= 1
        mag  == NatOf(ip) * 10 + (IF fp = <<>> THEN 0 ELSE DigitVal(Head(fp)))
    IN  IF ok THEN <<IF neg THEN -mag ELSE mag>> ELSE <<>>

\* .fillna(v)
FillNa(x, v) == IF x = <<>> THEN v ELSE x[1]

DaysBefore == <<0, 31, 59, 90, 120, 151, 181, 212, 243, 273, 304, 334>>
DaysIn == <<31, 28, 31, 30, 31, 30, 31, 31, 30, 31, 30, 31>>
YearPrefix == <<"2", "0", "2", "5", "-">>
Midnight == <<" ", "0", "0", ":", "0", "0">>
Noon == <<" ", "1", "2", ":", "0", "0">>

\* pd.to_datetime(..., errors="coerce") of the texts "2025-MM-DD",
\* "2025-MM-DD 00:00" and "2025-MM-DD 12:00"; every other text of the model
\* (blank, "n/a") is no date and becomes NaT.
ToDatetime(cell) ==
    LET shaped == /\ Len(cell) \in {10, 16}
                  /\ SubSeq(cell, 1, 5) = YearPrefix
                  /\ IsDigit(cell[6]) /\ IsDigit(cell[7]) /\ cell[8] = "-"
                  /\ IsDigit(cell[9]) /\ IsDigit(cell[10])
                  /\ Len(cell) = 16 => SubSeq(cell, 11, 16) \in {Midnight, Noon}
        m == NatOf(SubSeq(cell, 6, 7))
        d == NatOf(SubSeq(cell, 9, 10))
        half == IF Len(cell) = 16 /\ SubSeq(cell, 11, 16) = Noon THEN 1 ELSE 0
    IN  IF shaped /\ m \in 1..12 /\ d >= 1 /\ d <= DaysIn[m]
        THEN <<2 * (DaysBefore[m] + d) + half>>
        ELSE <<>>

\* Timestamp.date(), pd.to_datetime(date) and timedelta(days=n)
DateOf(ts) == ts \div 2
Timestamp(date) == 2 * date
Days(n) == 2 * n

(***************************************************************************)
(* Messages surfaced through st.info / st.warning / st.error.              *)
(***************************************************************************)
Msg(level, text, cols) == [level |-> level, text |-> text, cols |-> cols]

SeqFilter(s, keep) == LET ix == KeepIx(Len(s), keep) IN [k \in 1..Len(ix) |-> s[ix[k]]]

Missing(f, wanted) == SeqFilter(wanted, {i \in 1..Len(wanted) : ~HasCol(f, wanted[i])})

HasAll(f, wanted) == \A i \in 1..Len(wanted) : HasCol(f, wanted[i])

(***************************************************************************)
(* load_data: header normalization.                                        *)
(***************************************************************************)
\* pd.DataFrame(raw): the grid under the default labels 0, 1, 2, ...
Frame(raw) ==
    IF raw = <<>> THEN EmptyFrame
    ELSE [cols |-> [i \in 1..Len(raw[1]) |-> DecStr(i - 1)], rows |-> raw]

TooFewRows(f) == IsEmpty(f) \/ Len(f.rows) < 2

\* df.dropna(axis=1, how="all")
DropNaCols(f) ==
    SelectCols(f, {i \in 1..Len(f.cols) : \E r \in 1..Len(f.rows) : f.rows[r][i] # NA})

\* df.columns = df.iloc[1]; df = df[2:].reset_index(drop=True)
PromoteHeader(f) == [cols |-> f.rows[2], rows |-> SubSeq(f.rows, 3, Len(f.rows))]

StripLabels(f) == [f EXCEPT !.cols = [i \in 1..Len(f.cols) |-> Strip(f.cols[i])]]

\* df.loc[:, ~df.columns.duplicated()]
DropDuplicateLabels(f) ==
    SelectCols(f, {i \in 1..Len(f.cols) : \A j \in 1..(i - 1) : f.cols[j] # f.cols[i]})

CleanLabelsDedupeFirst(f) == StripLabels(DropDuplicateLabels(f))

CleanLabels(f) == DropDuplicateLabels(StripLabels(f))

\* The header normalization of a fetched frame; the empty frame when it has
\* too few rows.
NormalizeHeader(f) ==
    IF TooFewRows(f) THEN EmptyFrame ELSE CleanLabels(PromoteHeader(DropNaCols(f)))

(***************************************************************************)
(* load_data: coercion and derived metrics.                                *)
(***************************************************************************)
MapCol(f, c, Op(_)) == SetCol(f, c, [r \in 1..Len(f.rows) |-> Op(Cell(f, r, c))])

NumericOf(cell) == FillNa(ToNumeric(CleanNumeric(cell)), 0)

RECURSIVE CoerceNumeric(_, _)
CoerceNumeric(f, k) ==
    IF k = 0 THEN f
    ELSE LET g == CoerceNumeric(f, k - 1)
             c == EXPECTED_NUMERIC_COLS[k]
         IN  IF HasCol(g, c) THEN MapCol(g, c, NumericOf) ELSE g

RECURSIVE CoerceDates(_, _)
CoerceDates(f, k) ==
    IF k = 0 THEN f
    ELSE LET g == CoerceDates(f, k - 1)
             c == EXPECTED_DATE_COLS[k]
         IN  IF HasCol(g, c) THEN MapCol(g, c, ToDatetime) ELSE g

PendingUnclamped(ord, ontime, late) == ord - ontime - late

\* np.where(pending < 0, 0, pending)
Pending(ord, ontime, late) ==
    LET p == ord - ontime - late IN IF p < 0 THEN 0 ELSE p

LatePercentUnguarded(ord, late) == Div(late * 100, ord)

\* np.where(ord > 0, late / ord * 100, 0.0): both branches are evaluated,
\* the division by zero included, and the guard selects.
LatePercent(ord, late) ==
    LET ratio == Div(late * 100, ord) IN IF ord > 0 THEN ratio ELSE Zero

\* (due - odr).dt.days: whole days, rounded down; NaN when either is NaT.
LeadTime(odr, due) ==
    IF odr = <<>> \/ due = <<>> THEN <<>> ELSE <<(due[1] - odr[1]) \div 2>>

\* A variant that reads a missing amount as zero.
AmountOrZero(f, r, c) == IF HasCol(f, c) THEN Cell(f, r, c) ELSE 0

DeriveMetricsZeroForMissing(f) ==
    LET g == SetCol(f, PENDING_ORD,
                [r \in 1..Len(f.rows) |->
                   Pending(AmountOrZero(f, r, ORD_WT), AmountOrZero(f, r, ON_TIME_DEL),
                           AmountOrZero(f, r, LATE_DEL))])
    IN  SetCol(g, LATE_DEL_PCT,
                [r \in 1..Len(f.rows) |->
                   LatePercent(AmountOrZero(f, r, ORD_WT), AmountOrZero(f, r, LATE_DEL))])

DeriveMetrics(f) ==
    IF HasAll(f, EXPECTED_NUMERIC_COLS)
    THEN LET g == SetCol(f, PENDING_ORD,
                     [r \in 1..Len(f.rows) |->
                        Pending(Cell(f, r, ORD_WT), Cell(f, r, ON_TIME_DEL),
                                Cell(f, r, LATE_DEL))])
         IN  SetCol(g, LATE_DEL_PCT,
                     [r \in 1..Len(f.rows) |->
                        LatePercent(Cell(f, r, ORD_WT), Cell(f, r, LATE_DEL))])
    ELSE f

DeriveLeadTime(f) ==
    SetCol(f, LEAD_TIME_COL,
           [r \in 1..Len(f.rows) |->
              IF HasAll(f, <<DUE_DATE, ODR_DATE>>)
              THEN LeadTime(Cell(f, r, ODR_DATE), Cell(f, r, DUE_DATE))
              ELSE <<>>])

\* What the body of load_data surfaces after the header is normalized.
CleaningMessages(f) ==
    {Msg("warning", "date column not found", <<EXPECTED_DATE_COLS[k]>>) :
        k \in {i \in 1..Len(EXPECTED_DATE_COLS) : ~HasCol(f, EXPECTED_DATE_COLS[i])}}
    \cup (IF HasAll(f, EXPECTED_NUMERIC_COLS) THEN {}
          ELSE {Msg("error", "required numeric columns missing",
                    Missing(f, EXPECTED_NUMERIC_COLS))})
    \cup (IF HasAll(f, <<DUE_DATE, ODR_DATE>>) THEN {}
          ELSE {Msg("warning", "cannot calculate lead time", <<>>)})

\* load_data from the label clean-up on (both sources share it).
CleanAndDerive(f) ==
    LET labelled == CleanLabels(f)
        typed == CoerceDates(CoerceNumeric(labelled, Len(EXPECTED_NUMERIC_COLS)),
                             Len(EXPECTED_DATE_COLS))
    IN  [df |-> DeriveLeadTime(DeriveMetrics(typed)),
         messages |-> CleaningMessages(labelled)]

(***************************************************************************)
(* Ordering: Python's sorted() on text, and stable sorts of listings.      *)
(***************************************************************************)
\* The characters of the model in code point order.
Alphabet ==
    <<"\t", "\n", " ", "$", "%", "(", ")", "-", ".", "/",
      "0", "1", "2", "3", "4", "5", "6", "7", "8", "9", ":",
      "A", "B", "C", "D", "E", "F", "G", "H", "I", "J", "K", "L", "M",
      "N", "O", "P", "Q", "R", "S", "T", "U", "V", "W", "X", "Y", "Z", "_",
      "a", "b", "c", "d", "e", "f", "g", "h", "i", "j", "k", "l", "m",
      "n", "o", "p", "q", "r", "s", "t", "u", "v", "w", "x", "y", "z">>

Code(c) == CHOOSE i \in 1..Len(Alphabet) : Alphabet[i] = c

RECURSIVE TextLess(_, _)
TextLess(a, b) ==
    IF b = <<>> THEN FALSE
    ELSE IF a = <<>> THEN TRUE
    ELSE IF Head(a) = Head(b) THEN TextLess(Tail(a), Tail(b))
    ELSE Code(Head(a)) < Code(Head(b))

\* sorted(S) of a set of texts
SortedTexts(S) ==
    [k \in 1..Cardinality(S) |->
        CHOOSE x \in S : Cardinality({y \in S : TextLess(y, x)}) = k - 1]

\* A stable sort of a sequence by a strict weak order.
SortBy(s, Less(_, _)) ==
    LET Rank(i) == 1 + Cardinality({j \in 1..Len(s) :
                        Less(s[j], s[i]) \/ (~Less(s[i], s[j]) /\ j < i)})
    IN  [k \in 1..Len(s) |-> s[CHOOSE i \in 1..Len(s) : Rank(i) = k]]

RECURSIVE SumSeq(_)
SumSeq(s) == IF s = <<>> THEN 0 ELSE Head(s) + SumSeq(Tail(s))

\* Series.sum() of a numeric column
ColSum(f, c) == SumSeq([r \in 1..Len(f.rows) |-> Cell(f, r, c)])

\* df[df[c] == v]
WhereEq(f, c, v) == SelectRows(f, {r \in 1..Len(f.rows) : Cell(f, r, c) = v})

(***************************************************************************)
(* Date slicers.                                                           *)
(***************************************************************************)
DEFAULT_RANGE_DAYS == 365

SWAP_BACK_DAYS == 30

DATE_COLS_LOADED(full) ==
    SeqFilter(EXPECTED_DATE_COLS,
              {i \in 1..Len(EXPECTED_DATE_COLS) : HasCol(full, EXPECTED_DATE_COLS[i])})

\* df_full[c].dropna() as a set of timestamps
ValidDates(full, c) ==
    {Cell(full, r, c)[1] : r \in {q \in 1..Len(full.rows) : Cell(full, q, c) # <<>>}}

\* pd.concat of the valid dates of the loaded date columns
AllValidDates(full) ==
    UNION {ValidDates(full, c) : c \in Range(DATE_COLS_LOADED(full))}

SetMin(S) == CHOOSE x \in S : \A y \in S : x <= y
SetMax(S) == CHOOSE x \in S : \A y \in S : x >= y

MinDate(full) ==
    IF AllValidDates(full) = {} THEN Today - DEFAULT_RANGE_DAYS
    ELSE DateOf(SetMin(AllValidDates(full)))

MaxDate(full) ==
    IF AllValidDates(full) = {} THEN Today ELSE DateOf(SetMax(AllValidDates(full)))

\* The value the date_input of a column starts from.
DefaultRange(full, c) ==
    LET valid == ValidDates(full, c)
        start == IF valid # {} THEN DateOf(SetMin(valid)) ELSE MinDate(full)
        end   == IF valid # {} THEN DateOf(SetMax(valid)) ELSE MaxDate(full)
    IN  IF start > end THEN <<end - SWAP_BACK_DAYS, end>> ELSE <<start, end>>

\* The dates a user picks from: the days of [min_date, max_date] within
\* MaxPick days of either end.
Pickable(full) ==
    {d \in MinDate(full)..MaxDate(full) :
        d - MinDate(full) < MaxPick \/ MaxDate(full) - d < MaxPick}

\* What st.date_input can return: the default, a complete range inside
\* [min_value, max_value], or a lone start date while the user is picking.
DateInputs(full, c) ==
    {DefaultRange(full, c)}
    \cup {w \in Pickable(full) \X Pickable(full) : w[1] <= w[2]}
    \cup {<<s>> : s \in Pickable(full)}

InWindowClosedAtMidnight(ts, range) ==
    /\ ts # <<>>
    /\ ts[1] >= Timestamp(range[1])
    /\ ts[1] <= Timestamp(range[2])

\* notna & (value >= start) & (value < end + 1 day)
InWindow(ts, range) ==
    /\ ts # <<>>
    /\ ts[1] >= Timestamp(range[1])
    /\ ts[1] < Timestamp(range[2]) + Days(1)

\* One slicer: the filter is applied only to a complete range.
ApplySlicer(f, c, range) ==
    IF Len(range) = 2
    THEN SelectRows(f, {r \in 1..Len(f.rows) : InWindow(Cell(f, r, c), range)})
    ELSE f

\* The window chosen for a column that is not loaded: no slicer is shown.
NoSlicer == <<>>

SlicerInputs(full, c) == IF HasCol(full, c) THEN DateInputs(full, c) ELSE {NoSlicer}

Filtered(full, ord_range, due_range) ==
    LET after_ord == IF HasCol(full, ODR_DATE) THEN ApplySlicer(full, ODR_DATE, ord_range)
                     ELSE full
    IN  IF HasCol(full, DUE_DATE) THEN ApplySlicer(after_ord, DUE_DATE, due_range)
        ELSE after_ord

FilterMessages(full) ==
    IF DATE_COLS_LOADED(full) = <<>>
    THEN {Msg("info", "no date columns, date filters are disabled", <<>>)}
    ELSE IF AllValidDates(full) = {}
    THEN {Msg("info", "no valid date entries, using a default filter range", <<>>)}
    ELSE {}

(***************************************************************************)
(* Person matrix, drilldown and grand total.                               *)
(***************************************************************************)
ORDER_DETAIL_COLS == <<ORD_NO, ORD_WT, ON_TIME_DEL, LATE_DEL, PENDING_ORD>>

ColValues(f, c) == {Cell(f, r, c) : r \in 1..Len(f.rows)}

\* sorted(df[PERSON_COL].dropna().unique())
Persons(f) == SortedTexts(ColValues(f, PERSON_COL))

\* The mean of fractions.
RECURSIVE SumFrac(_)
SumFrac(s) ==
    IF s = <<>> THEN Zero
    ELSE LET t == SumFrac(Tail(s))
         IN  Div(Head(s)[1] * t[2] + t[1] * Head(s)[2], Head(s)[2] * t[2])

MeanFrac(s) == LET t == SumFrac(s) IN Div(t[1], t[2] * Len(s))

MeanOfRecordPercents(f) ==
    IF Len(f.rows) = 0 THEN Zero
    ELSE MeanFrac([r \in 1..Len(f.rows) |-> Cell(f, r, LATE_DEL_PCT)])

\* (late_del_sum / ord_wt_sum) * 100 if ord_wt_sum > 0 else 0.0
AggLatePercent(f) ==
    IF ColSum(f, ORD_WT) > 0 THEN Div(ColSum(f, LATE_DEL) * 100, ColSum(f, ORD_WT))
    ELSE Zero

\* max(0, ord_wt_sum - ontime_del_sum - late_del_sum)
PersonPending(f) ==
    LET p == ColSum(f, ORD_WT) - ColSum(f, ON_TIME_DEL) - ColSum(f, LATE_DEL)
    IN  IF p > 0 THEN p ELSE 0

PersonRow(f, p) ==
    LET df_p == WhereEq(f, PERSON_COL, p)
    IN  [person |-> p,
         ord_wt |-> ColSum(df_p, ORD_WT),
         ontime_del |-> ColSum(df_p, ON_TIME_DEL),
         late_del |-> ColSum(df_p, LATE_DEL),
         pending_ord |-> PersonPending(df_p),
         late_del_percent |-> AggLatePercent(df_p)]

PersonRows(f) == [k \in 1..Len(Persons(f)) |-> PersonRow(f, Persons(f)[k])]

GrandTotal(f) ==
    [ord_wt |-> ColSum(f, ORD_WT),
     ontime_del |-> ColSum(f, ON_TIME_DEL),
     late_del |-> ColSum(f, LATE_DEL),
     pending_ord |-> ColSum(f, PENDING_ORD),
     late_del_percent |-> AggLatePercent(f)]

RemarkKeysUnstripped(f) == SortedTexts(ColValues(f, REMARK_COL) \ {<<>>})

\* sorted(col.astype(str).str.strip().replace('', np.nan).dropna().unique())
RemarkKeys(f) == SortedTexts({Strip(v) : v \in ColValues(f, REMARK_COL)} \ {<<>>})

\* df_r[existing_cols]
TakeCols(f, wanted) ==
    LET have == SeqFilter(wanted, {i \in 1..Len(wanted) : HasCol(f, wanted[i])})
    IN  [cols |-> have,
         rows |-> [r \in 1..Len(f.rows) |-> [k \in 1..Len(have) |-> Cell(f, r, have[k])]]]

\* The detail section of an expanded person: one expander per reason.
Drilldown(f, p) ==
    LET df_p == WhereEq(f, PERSON_COL, p)
        remarks == IF HasCol(df_p, REMARK_COL) THEN RemarkKeys(df_p) ELSE <<>>
    IN  [person |-> p,
         reasons |-> [k \in 1..Len(remarks) |->
                        [reason |-> remarks[k],
                         orders |-> TakeCols(WhereEq(df_p, REMARK_COL, remarks[k]),
                                             ORDER_DETAIL_COLS)]]]

Drilldowns(f, expanded) ==
    LET shown == SeqFilter(Persons(f),
                           {k \in 1..Len(Persons(f)) : Persons(f)[k] \in expanded})
    IN  [k \in 1..Len(shown) |-> Drilldown(f, shown[k])]

DrilldownMessages(f, expanded) ==
    LET shown == {p \in Range(Persons(f)) : p \in expanded}
    IN  IF ~HasCol(f, REMARK_COL)
        THEN {Msg("error", "remark column not found", <<p>>) : p \in shown}
        ELSE {Msg("info", "no late delivery remarks for this person", <<p>>) :
                 p \in {q \in shown : RemarkKeys(WhereEq(f, PERSON_COL, q)) = <<>>}}

(***************************************************************************)
(* Charts.                                                                 *)
(***************************************************************************)
FirstAppearance(s) == SeqFilter(s, {i \in 1..Len(s) : \A j \in 1..(i - 1) : s[j] # s[i]})

Count(s, v) == Cardinality({i \in 1..Len(s) : s[i] = v})

MoreFrequent(a, b) == a.count > b.count

\* col.astype(str).str.strip().replace('', np.nan).dropna().value_counts()
RemarkCounts(f) ==
    LET stripped == [r \in 1..Len(f.rows) |-> Strip(Cell(f, r, REMARK_COL))]
        kept == SeqFilter(stripped, {i \in 1..Len(stripped) : stripped[i] # <<>>})
        keys == FirstAppearance(kept)
    IN  SortBy([k \in 1..Len(keys) |-> [reason |-> keys[k], count |-> Count(kept, keys[k])]],
               MoreFrequent)

\* df.groupby(key)["ORD WT"].sum().reset_index()
GroupWeight(f, key) ==
    LET keys == SortedTexts(ColValues(f, key))
    IN  [k \in 1..Len(keys) |->
            [key |-> keys[k], ord_wt |-> ColSum(WhereEq(f, key, keys[k]), ORD_WT)]]

\* Whether the fraction a is above the fraction b.
FracAbove(a, b) == a[1] * b[2] > b[1] * a[2]

\* sort_values(by='avg_lead', ascending=False): NaN last
HigherAverage(a, b) ==
    a.avg_lead # <<>> /\ (b.avg_lead = <<>> \/ FracAbove(a.avg_lead[1], b.avg_lead[1]))

LeadStatsNullAsZero(leads) ==
    LET vals == [i \in 1..Len(leads) |-> FillNa(leads[i], 0)]
    IN  IF Len(vals) = 0 THEN [min_lead |-> <<>>, max_lead |-> <<>>, avg_lead |-> <<>>]
        ELSE [min_lead |-> <<SetMin(Range(vals))>>,
              max_lead |-> <<SetMax(Range(vals))>>,
              avg_lead |-> <<Div(SumSeq(vals), Len(vals))>>]

\* agg(min, max, mean) of one group: NaN is skipped, all-NaN gives NaN.
LeadStats(leads) ==
    LET kept == SeqFilter(leads, {i \in 1..Len(leads) : leads[i] # <<>>})
        vals == [i \in 1..Len(kept) |-> kept[i][1]]
    IN  IF Len(vals) = 0 THEN [min_lead |-> <<>>, max_lead |-> <<>>, avg_lead |-> <<>>]
        ELSE [min_lead |-> <<SetMin(Range(vals))>>,
              max_lead |-> <<SetMax(Range(vals))>>,
              avg_lead |-> <<Div(SumSeq(vals), Len(vals))>>]

\* df.groupby(ITEM_COL)[LEAD_TIME_COL].agg(...).sort_values(by='avg_lead', ascending=False)
DeliveryTimeSummary(f) ==
    LET items == SortedTexts(ColValues(f, ITEM_COL))
        Stats(item) ==
            LET g == WhereEq(f, ITEM_COL, item)
                s == LeadStats([r \in 1..Len(g.rows) |-> Cell(g, r, LEAD_TIME_COL)])
            IN  [item |-> item, min_lead |-> s.min_lead, max_lead |-> s.max_lead,
                 avg_lead |-> s.avg_lead]
    IN  SortBy([k \in 1..Len(items) |-> Stats(items[k])], HigherAverage)

NoCharts ==
    [shown |-> FALSE, remark_counts |-> <<>>, item_wt |-> <<>>, purity_wt |-> <<>>,
     delivery_time_summary |-> <<>>]

Charts(f) ==
    [shown |-> TRUE,
     remark_counts |-> IF HasCol(f, REMARK_COL) THEN RemarkCounts(f) ELSE <<>>,
     item_wt |-> IF HasCol(f, ITEM_COL) THEN GroupWeight(f, ITEM_COL) ELSE <<>>,
     purity_wt |-> IF HasCol(f, PURITY_COL) THEN GroupWeight(f, PURITY_COL) ELSE <<>>,
     delivery_time_summary |->
        IF HasCol(f, ITEM_COL) /\ HasCol(f, LEAD_TIME_COL) THEN DeliveryTimeSummary(f)
        ELSE <<>>]

ChartMessages(f) ==
    (IF ~HasCol(f, REMARK_COL) THEN {Msg("info", "cannot generate chart", <<REMARK_COL>>)}
     ELSE IF RemarkCounts(f) = <<>> THEN {Msg("info", "no late delivery remarks", <<>>)}
     ELSE {})
    \cup {Msg("info", "cannot generate chart", <<c>>) :
             c \in {x \in {ITEM_COL, PURITY_COL} : ~HasCol(f, x)}}

(***************************************************************************)
(* The two sources of load_data.                                           *)
(***************************************************************************)
STD_HEADER ==
    <<PERSON_COL, ORD_WT, ON_TIME_DEL, LATE_DEL, ODR_DATE, DUE_DATE, REMARK_COL,
      ITEM_COL, ORD_NO, PURITY_COL>>

\* The built-in records (df_data); a numeric cell holds the text astype(str)
\* gives for its float.
FIXTURE_ROWS ==
    <<
           <<<<"J", "o", "h", "n">>,
             <<"1", "0", "0", "0", ".", "0">>,
             <<"8", "0", "0", ".", "0">>,
             <<"5", "0", ".", "0">>,
             <<"2", "0", "2", "5", "-", "0", "1", "-", "1", "0">>,
             <<"2", "0", "2", "5", "-", "0", "1", "-", "2", "0">>,
             <<"R", "a", "w", " ", "M", "a", "t", "e", "r", "i", "a", "l", " ", "D", "e", "l", "a", "y">>,
             <<"R", "O", "P", "E", " ", "C", "H", "A", "I", "N">>,
             <<"P", "1", "0", "0", "1">>,
             <<"2", "2", "K", "T">>>>,
           <<<<"J", "a", "n", "e">>,
             <<"5", "0", "0", ".", "0">>,
             <<"4", "0", "0", ".", "0">>,
             <<"0", ".", "0">>,
             <<"2", "0", "2", "5", "-", "0", "1", "-", "1", "5">>,
             <<"2", "0", "2", "5", "-", "0", "1", "-", "2", "5">>,
             <<>>,
             <<"M", ".", "C", "H", "A", "I", "N">>,
             <<"P", "1", "0", "0", "2">>,
             <<"1", "8", "K", "T">>>>,
           <<<<"J", "o", "h", "n">>,
             <<"2", "0", "0", "0", ".", "0">>,
             <<"0", ".", "0">>,
             <<"1", "5", "0", "0", ".", "0">>,
             <<"2", "0", "2", "5", "-", "0", "3", "-", "0", "1">>,
             <<"2", "0", "2", "5", "-", "0", "3", "-", "1", "0">>,
             <<"P", "r", "o", "d", "u", "c", "t", "i", "o", "n", " ", "I", "s", "s", "u", "e">>,
             <<"R", "O", "P", "E", " ", "C", "H", "A", "I", "N">>,
             <<"P", "1", "0", "0", "3">>,
             <<"2", "2", "K", "T">>>>,
           <<<<"A", "l", "i", "c", "e">>,
             <<"1", "5", "0", "0", ".", "0">>,
             <<"1", "0", "0", "0", ".", "0">>,
             <<"5", "0", "0", ".", "0">>,
             <<"2", "0", "2", "5", "-", "0", "4", "-", "0", "5">>,
             <<"2", "0", "2", "5", "-", "0", "4", "-", "1", "5">>,
             <<"L", "o", "g", "i", "s", "t", "i", "c", "s">>,
             <<"B", "A", "L", "L", " ", "C", "H", "A", "I", "N">>,
             <<"P", "1", "0", "0", "4">>,
             <<"2", "0", "K", "T">>>>,
           <<<<"J", "a", "n", "e">>,
             <<"8", "0", "0", ".", "0">>,
             <<"8", "0", "0", ".", "0">>,
             <<"0", ".", "0">>,
             <<"2", "0", "2", "5", "-", "0", "5", "-", "2", "0">>,
             <<"2", "0", "2", "5", "-", "0", "5", "-", "3", "0">>,
             <<"R", "a", "w", " ", "M", "a", "t", "e", "r", "i", "a", "l", " ", "D", "e", "l", "a", "y">>,
             <<"M", ".", "C", "H", "A", "I", "N">>,
             <<"P", "1", "0", "0", "5">>,
             <<"1", "8", "K", "T">>>>,
           <<<<"A", "l", "i", "c", "e">>,
             <<"1", "2", "0", "0", ".", "0">>,
             <<"1", "0", "0", "0", ".", "0">>,
             <<"2", "0", "0", ".", "0">>,
             <<"2", "0", "2", "5", "-", "0", "6", "-", "1", "0">>,
             <<"2", "0", "2", "5", "-", "0", "6", "-", "2", "5">>,
             <<>>,
             <<"R", "O", "P", "E">>,
             <<"P", "1", "0", "0", "6">>,
             <<"2", "2", "K", "T">>>>,
           <<<<"J", "o", "h", "n">>,
             <<"1", "8", "0", "0", ".", "0">>,
             <<"1", "5", "0", "0", ".", "0">>,
             <<"0", ".", "0">>,
             <<"2", "0", "2", "5", "-", "0", "7", "-", "0", "1">>,
             <<"2", "0", "2", "5", "-", "0", "7", "-", "1", "5">>,
             <<"P", "r", "o", "d", "u", "c", "t", "i", "o", "n", " ", "I", "s", "s", "u", "e">>,
             <<"C", "O", "C", "K", "T", "A", "I", "L">>,
             <<"P", "1", "0", "0", "7">>,
             <<"2", "1", "K", "T">>>>,
           <<<<"J", "a", "n", "e">>,
             <<"9", "0", "0", ".", "0">>,
             <<"9", "0", "0", ".", "0">>,
             <<"0", ".", "0">>,
             <<"2", "0", "2", "5", "-", "0", "8", "-", "0", "1">>,
             <<"2", "0", "2", "5", "-", "0", "8", "-", "0", "5">>,
             <<"L", "o", "g", "i", "s", "t", "i", "c", "s">>,
             <<"R", "O", "P", "E">>,
             <<"P", "1", "0", "0", "8">>,
             <<"1", "4", "K", "T">>>>,
           <<<<"B", "o", "b">>,
             <<"1", "1", "0", "0", ".", "0">>,
             <<"1", "0", "0", "0", ".", "0">>,
             <<"0", ".", "0">>,
             <<"2", "0", "2", "5", "-", "0", "8", "-", "1", "5">>,
             <<"2", "0", "2", "5", "-", "0", "8", "-", "2", "5">>,
             <<>>,
             <<"M", "I", "X">>,
             <<"P", "1", "0", "0", "9">>,
             <<"2", "2", "K", "T">>>>,
           <<<<"A", "l", "i", "c", "e">>,
             <<"1", "3", "0", "0", ".", "0">>,
             <<"1", "3", "0", "0", ".", "0">>,
             <<"0", ".", "0">>,
             <<"2", "0", "2", "5", "-", "0", "9", "-", "0", "1">>,
             <<"2", "0", "2", "5", "-", "0", "9", "-", "1", "0">>,
             <<"P", "r", "o", "d", "u", "c", "t", "i", "o", "n", " ", "I", "s", "s", "u", "e">>,
             <<"B", "A", "L", "L", " ", "C", "H", "A", "I", "N">>,
             <<"P", "1", "0", "1", "0">>,
             <<"2", "0", "K", "T">>>>>>

Fixture == [cols |-> STD_HEADER, rows |-> FIXTURE_ROWS]

FetchStatus == {"ok", "spreadsheet_not_found", "worksheet_not_found", "error"}

\* A variant that falls back to the built-in records when the fetch fails.
LoadResultFixtureOnFailure(cl, src) ==
    IF cl = "none" \/ src.status # "ok"
    THEN LET r == CleanAndDerive(Fixture)
         IN  [df |-> r.df, messages |-> r.messages \cup {Msg("info", "using dummy data", <<>>)}]
    ELSE IF TooFewRows(Frame(src.grid))
    THEN [df |-> EmptyFrame, messages |-> {Msg("warning", "too few rows for a header", <<>>)}]
    ELSE CleanAndDerive(PromoteHeader(DropNaCols(Frame(src.grid))))

\* load_data(), uncached: the table and the messages it surfaces.
LoadResult(cl, src) ==
    IF cl = "none"
    THEN LET r == CleanAndDerive(Fixture)
         IN  [df |-> r.df, messages |-> r.messages \cup {Msg("info", "using dummy data", <<>>)}]
    ELSE IF src.status # "ok"
    THEN [df |-> EmptyFrame, messages |-> {Msg("error", src.status, <<>>)}]
    ELSE IF TooFewRows(Frame(src.grid))
    THEN [df |-> EmptyFrame, messages |-> {Msg("warning", "too few rows for a header", <<>>)}]
    ELSE CleanAndDerive(PromoteHeader(DropNaCols(Frame(src.grid))))

(***************************************************************************)
(* The render cycle.                                                       *)
(***************************************************************************)
TTL == 600

CacheValid == cache # <<>> /\ now - cache[1].at < TTL

NoWindows == [ord |-> NoSlicer, due |-> NoSlicer]

\* What the last call of load_data did: whether its body ran, and the cache
\* entries a refresh cleared just before it.
NoLoad == [fetched |-> FALSE, cleared |-> <<>>]

\* A script run starts with nothing rendered.
ClearView ==
    /\ messages' = {}
    /\ df_full' = EmptyFrame
    /\ df' = EmptyFrame
    /\ windows' = NoWindows
    /\ matrix' = <<>>
    /\ drilldown' = <<>>
    /\ grand_total' = <<>>
    /\ charts' = NoCharts

\* df_full = load_data() under st.cache_data(ttl=600): a cached entry is
\* returned, and its messages replayed, without running the body.
LoadData ==
    /\ pc = "start"
    /\ LET r == IF CacheValid THEN [df |-> cache[1].df, messages |-> cache[1].messages]
                ELSE LoadResult(client, source)
       IN  /\ df_full' = r.df
           /\ messages' = r.messages
           /\ cache' = IF CacheValid THEN cache
                       ELSE <<[df |-> r.df, messages |-> r.messages, at |-> now]>>
    /\ last_load' = [fetched |-> ~CacheValid, cleared |-> last_load.cleared]
    /\ pc' = "loaded"
    /\ UNCHANGED <<client, source, now, session_state, df, windows, matrix, drilldown,
                   grand_total, charts>>

\* if df_full.empty: st.error(...); st.stop()
StopIfEmpty ==
    /\ pc = "loaded"
    /\ IsEmpty(df_full)
    /\ messages' = messages \cup {Msg("error", "the dataframe is empty", <<>>)}
    /\ pc' = "stopped"
    /\ UNCHANGED <<client, source, cache, now, last_load, session_state,
                   df_full, df, windows, matrix,
                   drilldown, grand_total, charts>>

\* A variant of the refresh button that reruns and leaves the cache alone.
RefreshKeepsCache ==
    /\ pc = "loaded"
    /\ ~IsEmpty(df_full)
    /\ cache' = cache
    /\ last_load' = [fetched |-> FALSE, cleared |-> cache]
    /\ pc' = "start"
    /\ ClearView
    /\ UNCHANGED <<client, source, now, session_state>>

\* The refresh button pressed: st.cache_data.clear(); st.experimental_rerun()
\* The button is created after the stop of an empty table, so a run that
\* stops there never offers it.
RefreshData ==
    /\ pc = "loaded"
    /\ ~IsEmpty(df_full)
    /\ cache' = <<>>
    /\ last_load' = [fetched |-> FALSE, cleared |-> cache]
    /\ pc' = "start"
    /\ ClearView
    /\ UNCHANGED <<client, source, now, session_state>>

\* The two date slicers, with the ranges the user leaves or picks.
DateFilter ==
    /\ pc = "loaded"
    /\ ~IsEmpty(df_full)
    /\ \E ord_range \in SlicerInputs(df_full, ODR_DATE),
          due_range \in SlicerInputs(df_full, DUE_DATE) :
          /\ windows' = [ord |-> ord_range, due |-> due_range]
          /\ df' = Filtered(df_full, ord_range, due_range)
    /\ messages' = messages \cup FilterMessages(df_full)
    /\ pc' = "filtered"
    /\ UNCHANGED <<client, source, cache, now, last_load, session_state,
                   df_full, matrix, drilldown,
                   grand_total, charts>>

\* The person matrix: one row per person, the detail of the expanded ones,
\* and the grand total; or the stop when a required column is missing.
Matrix ==
    /\ pc = "filtered"
    /\ IF HasAll(df, REQUIRED_MATRIX_COLS)
       THEN /\ matrix' = PersonRows(df)
            /\ drilldown' = Drilldowns(df, session_state)
            /\ grand_total' = <<GrandTotal(df)>>
            /\ messages' = messages \cup DrilldownMessages(df, session_state)
            /\ pc' = "matrix"
       ELSE /\ messages' = messages \cup
                              {Msg("error", "required calculation columns are missing", <<>>)}
            /\ pc' = "stopped"
            /\ UNCHANGED <<matrix, drilldown, grand_total>>
    /\ UNCHANGED <<client, source, cache, now, last_load, session_state,
                   df_full, df, windows, charts>>

\* The charts section, reached only with the required columns present.
ShowCharts ==
    /\ pc = "matrix"
    /\ IF ~IsEmpty(df)
       THEN /\ charts' = Charts(df)
            /\ messages' = messages \cup ChartMessages(df)
       ELSE /\ charts' = charts
            /\ messages' = messages \cup
                              {Msg("warning", "the dataset is empty after applying filters", <<>>)}
    /\ pc' = "done"
    /\ UNCHANGED <<client, source, cache, now, last_load, session_state,
                   df_full, df, windows, matrix,
                   drilldown, grand_total>>

\* The user flips the toggle of a person row; the script runs again.
Toggle ==
    /\ pc = "done"
    /\ \E k \in 1..Len(matrix) :
          session_state' = IF matrix[k].person \in session_state
                           THEN session_state \ {matrix[k].person}
                           ELSE session_state \cup {matrix[k].person}
    /\ last_load' = NoLoad
    /\ pc' = "start"
    /\ ClearView
    /\ UNCHANGED <<client, source, cache, now>>

\* Any other interaction, or a page reload, runs the script again.
Rerun ==
    /\ pc \in {"done", "stopped"}
    /\ last_load' = NoLoad
    /\ pc' = "start"
    /\ ClearView
    /\ UNCHANGED <<client, source, cache, now, session_state>>

\* Between two script runs time passes ...
Tick ==
    /\ pc = "start"
    /\ now + ClockStep <= MaxClock
    /\ now' = now + ClockStep
    /\ UNCHANGED <<client, source, cache, last_load, session_state, pc, messages, df_full,
                   df, windows, matrix, drilldown, grand_total, charts>>

(***************************************************************************)
(* Sheets.                                                                 *)
(***************************************************************************)
Txt0 == <<"0">>
Txt5 == <<"5">>
Txt10 == <<"1", "0">>
Txt30 == <<"3", "0">>
TxtDollarTwoAndHalf == <<"$", "2", ".", "5">>
TxtMinus10 == <<"-", "1", "0">>
TxtTwoAndHalf == <<"2", ".", "5">>
TxtRange == <<"1", "-", "0">>
TxtBlank == <<>>
TxtSpace == <<" ">>
TxtNotAvailable == <<"n", "/", "a">>
TxtJan10 == <<"2", "0", "2", "5", "-", "0", "1", "-", "1", "0">>
TxtJan10Midnight == TxtJan10 \o Midnight
TxtJan11Midnight == <<"2", "0", "2", "5", "-", "0", "1", "-", "1", "1">> \o Midnight
TxtJan12Noon == <<"2", "0", "2", "5", "-", "0", "1", "-", "1", "2">> \o Noon
TxtA == <<"A">>
TxtB == <<"B">>
TxtRain == <<"R", "a", "i", "n">>
TxtRainPadded == <<" ", "R", "a", "i", "n", " ">>
TxtStrike == <<"S", "t", "r", "i", "k", "e">>
TxtChain == <<"C", "H", "A", "I", "N">>
TxtRope == <<"R", "O", "P", "E">>
Txt22KT == <<"2", "2", "K", "T">>
TxtNotes == <<"N", "O", "T", "E", "S">>
TxtOrderWt == <<"O", "R", "D", "E", "R", " ", "W", "T">>
TxtOnTimeDel == <<"O", "N", " ", "T", "I", "M", "E", " ", "D", "E", "L">>
TxtLateDel == <<"L", "A", "T", "E", " ", "D", "E", "L">>

\* The first row of the sheet, above the header row.
TitleRow(width) == [i \in 1..width |-> <<"R", "E", "P", "O", "R", "T">>]

Pad(label) == <<" ">> \o label \o <<" ">>

RowSeqs(S) == UNION {[1..n -> S] : n \in 0..MaxRows}

\* The order number of the n-th data row.
OrderNo(n) == <<"P">> \o DecStr(n)

Numbered(rows) == [n \in 1..Len(rows) |-> [rows[n] EXCEPT ![9] = OrderNo(n)]]

Sheet(header, rows) == <<TitleRow(Len(header)), header>> \o Numbered(rows)

StartWith(cl, src) ==
    /\ client = cl
    /\ source = src
    /\ cache = <<>>
    /\ now = 0
    /\ last_load = NoLoad
    /\ session_state = {}
    /\ pc = "start"
    /\ messages = {}
    /\ df_full = EmptyFrame
    /\ df = EmptyFrame
    /\ windows = NoWindows
    /\ matrix = <<>>
    /\ drilldown = <<>>
    /\ grand_total = <<>>
    /\ charts = NoCharts

BaseInit(grid) == StartWith("ok", [status |-> "ok", grid |-> grid])

\* Sheets whose amounts vary: signs, blanks, currency marks, decimals and
\* texts that are no number.
MetricRows ==
    {<<p, ord, ontime, late, TxtJan10, TxtJan10, TxtBlank, TxtChain, TxtBlank, Txt22KT>> :
        p \in {TxtA, TxtB},
        ord \in {Txt0, Txt10, TxtDollarTwoAndHalf, TxtMinus10},
        ontime \in {TxtRange, Txt30},
        late \in {Txt5}}

InitMetrics == \E rows \in RowSeqs(MetricRows) : BaseInit(Sheet(STD_HEADER, rows))

NextMetrics == LoadData \/ StopIfEmpty \/ DateFilter \/ Matrix \/ ShowCharts

SpecMetrics == InitMetrics /\ [][NextMetrics]_vars

\* Sheets whose dates vary: blank, no date, midnight and noon timestamps.
DateRows ==
    {<<TxtA, Txt10, Txt5, Txt0, odr, due, TxtBlank, item, TxtBlank, Txt22KT>> :
        odr \in {TxtBlank, TxtJan10Midnight, TxtJan12Noon},
        due \in {TxtNotAvailable, TxtJan11Midnight},
        item \in {TxtChain, TxtRope}}

\* The sheet with both date columns, and with the DUE DATE column missing.
DATE_HEADERS == {STD_HEADER, [STD_HEADER EXCEPT ![6] = TxtNotes]}

InitDates ==
    \E header \in DATE_HEADERS, rows \in RowSeqs(DateRows) : BaseInit(Sheet(header, rows))

NextDates == LoadData \/ StopIfEmpty \/ DateFilter \/ Matrix \/ ShowCharts

SpecDates == InitDates /\ [][NextDates]_vars

\* Sheets whose labels and reasons vary: padded labels, a second column that
\* normalizes to the label of an earlier one, blank and padded reasons.
TEXT_HEADERS ==
    {Append(STD_HEADER, TxtNotes),
     [i \in 1..(Len(STD_HEADER) + 1) |-> Pad(Append(STD_HEADER, TxtNotes)[i])],
     Append(STD_HEADER, ORD_WT \o <<" ">>)}

TextRows ==
    {<<p, Txt10, Txt5, TxtTwoAndHalf, TxtJan10, TxtJan10, reason, TxtChain, TxtBlank,
       Txt22KT, Txt30>> :
        p \in {TxtA, TxtB},
        reason \in {TxtBlank, TxtSpace, TxtRain, TxtRainPadded, TxtStrike}}

InitText ==
    \E header \in TEXT_HEADERS, rows \in RowSeqs(TextRows) : BaseInit(Sheet(header, rows))

NextText == LoadData \/ StopIfEmpty \/ DateFilter \/ Matrix \/ ShowCharts \/ Toggle

SpecText == InitText /\ [][NextText]_vars

\* Sheets whose header lacks some of the amount columns: each of ORD WT,
\* ON_TIME DEL and LATE_DEL is there, padded, or under another label; one
\* sheet brings a PENDING ORD column of its own in the place of LATE_DEL.
COLUMN_HEADERS ==
    {[STD_HEADER EXCEPT ![2] = ord, ![3] = ontime, ![4] = late] :
        ord \in {ORD_WT, TxtOrderWt},
        ontime \in {ON_TIME_DEL, TxtOnTimeDel},
        late \in {LATE_DEL, Pad(LATE_DEL), TxtLateDel, PENDING_ORD}}

ColumnRows ==
    {<<p, ord, Txt5, Txt0, TxtJan10, TxtJan10, TxtRain, TxtChain, TxtBlank, Txt22KT>> :
        p \in {TxtA, TxtB},
        ord \in {Txt10, TxtMinus10}}

InitColumns ==
    \E header \in COLUMN_HEADERS, rows \in RowSeqs(ColumnRows) :
        BaseInit(Sheet(header, rows))

NextColumns == LoadData \/ StopIfEmpty \/ DateFilter \/ Matrix \/ ShowCharts

SpecColumns == InitColumns /\ [][NextColumns]_vars

\* The whole application: with or without credentials, over a spreadsheet
\* that may be missing, fail, hold a title row only, a header without
\* records, records, or records under a header without LATE_DEL, and that
\* changes between script runs while the clock advances.
AppRow(k) ==
    IF k % 2 = 1
    THEN <<TxtA, Txt10, Txt5, Txt0, TxtJan10, TxtJan10, TxtRain, TxtChain, TxtBlank, Txt22KT>>
    ELSE <<TxtB, Txt30, Txt10, Txt5, TxtJan10, TxtJan10, TxtBlank, TxtRope, TxtBlank, Txt22KT>>

AppSheets ==
    {<<TitleRow(Len(STD_HEADER))>>}
    \cup {Sheet(STD_HEADER, [k \in 1..n |-> AppRow(k)]) : n \in 0..MaxRows}
    \cup {Sheet([STD_HEADER EXCEPT ![4] = TxtLateDel], <<AppRow(1)>>)}

\* Without a client no spreadsheet is ever opened.
NoSource == [status |-> "error", grid |-> <<>>]

Sources ==
    {[status |-> "ok", grid |-> g] : g \in AppSheets}
    \cup {[status |-> s, grid |-> <<>>] : s \in FetchStatus \ {"ok"}}

\* ... and the spreadsheet changes.
SourceChange ==
    /\ pc = "start"
    /\ client = "ok"
    /\ source' \in Sources \ {source}
    /\ UNCHANGED <<client, cache, now, last_load, session_state, pc, messages, df_full,
                   df, windows, matrix, drilldown, grand_total, charts>>

Init == StartWith("none", NoSource) \/ \E src \in Sources : StartWith("ok", src)

Next ==
    \/ LoadData
    \/ StopIfEmpty
    \/ RefreshData
    \/ DateFilter
    \/ Matrix
    \/ ShowCharts
    \/ Rerun
    \/ Tick
    \/ SourceChange

Spec == Init /\ [][Next]_vars

(***************************************************************************)
(* Properties.                                                             *)
(***************************************************************************)
Loaded == pc # "start"
Sliced == pc \in {"filtered", "matrix", "done"}
Rendered == pc \in {"matrix", "done"}
RowsOf(f) == 1..Len(f.rows)
Max(a, b) == IF a >= b THEN a ELSE b

\* The fraction q is n / d.
IsRatio(q, n, d) == q[2] > 0 /\ q[1] * d = n * q[2]

\* C1: in every record of the loaded table that has ORD WT, ON_TIME DEL and
\* LATE_DEL, PENDING ORD is max(0, ORD WT - ON_TIME DEL - LATE_DEL), so it
\* is never negative, whatever the signs of the three amounts.
C1_PendingIsClampedDifference ==
    (Loaded /\ HasAll(df_full, EXPECTED_NUMERIC_COLS)) =>
        \A r \in RowsOf(df_full) :
            /\ Cell(df_full, r, PENDING_ORD) =
                  Max(0, Cell(df_full, r, ORD_WT) - Cell(df_full, r, ON_TIME_DEL)
                         - Cell(df_full, r, LATE_DEL))
            /\ Cell(df_full, r, PENDING_ORD) >= 0

\* A loaded record with a negative amount whose difference is negative and
\* whose PENDING ORD is 0, beside a record with a positive PENDING ORD.
C1_Witness ==
    /\ Loaded /\ HasAll(df_full, EXPECTED_NUMERIC_COLS)
    /\ \E r \in RowsOf(df_full) :
          /\ Cell(df_full, r, ORD_WT) < 0
          /\ Cell(df_full, r, ORD_WT) - Cell(df_full, r, ON_TIME_DEL)
                - Cell(df_full, r, LATE_DEL) < 0
          /\ Cell(df_full, r, PENDING_ORD) = 0
    /\ \E r \in RowsOf(df_full) : Cell(df_full, r, PENDING_ORD) > 0

\* C2: in every record of the loaded table LATE_DEL_% is LATE_DEL / ORD WT
\* * 100 when ORD WT > 0 and 0 otherwise; no record carries the inf or nan
\* of a division by zero.
C2_LatePercentGuarded ==
    (Loaded /\ HasAll(df_full, EXPECTED_NUMERIC_COLS)) =>
        \A r \in RowsOf(df_full) :
            LET pct == Cell(df_full, r, LATE_DEL_PCT)
                ord == Cell(df_full, r, ORD_WT)
                late == Cell(df_full, r, LATE_DEL)
            IN  /\ pct[2] # 0
                /\ ord > 0 => IsRatio(pct, late * 100, ord)
                /\ ord <= 0 => pct = Zero

\* A loaded record with ORD WT 0 and a late delivery, one with a negative
\* ORD WT, and one with a positive percentage.
C2_Witness ==
    /\ Loaded /\ HasAll(df_full, EXPECTED_NUMERIC_COLS)
    /\ \E r \in RowsOf(df_full) :
          /\ Cell(df_full, r, ORD_WT) = 0
          /\ Cell(df_full, r, LATE_DEL) > 0
          /\ Cell(df_full, r, LATE_DEL_PCT) = Zero
    /\ \E r \in RowsOf(df_full) :
          Cell(df_full, r, ORD_WT) > 0 /\ Cell(df_full, r, LATE_DEL_PCT)[1] > 0

FieldSum(rows, Field(_)) == SumSeq([k \in 1..Len(rows) |-> Field(rows[k])])

OrdWtOf(row) == row.ord_wt
OntimeDelOf(row) == row.ontime_del
LateDelOf(row) == row.late_del
PendingOrdOf(row) == row.pending_ord

\* C3: once the matrix is rendered, the person rows add up to the grand
\* total row in each of ORD WT, ON_TIME DEL, LATE_DEL and PENDING ORD.
C3_PersonRowsAddUpToGrandTotal ==
    Rendered =>
        /\ FieldSum(matrix, OrdWtOf) = grand_total[1].ord_wt
        /\ FieldSum(matrix, OntimeDelOf) = grand_total[1].ontime_del
        /\ FieldSum(matrix, LateDelOf) = grand_total[1].late_del
        /\ FieldSum(matrix, PendingOrdOf) = grand_total[1].pending_ord

\* Whether a timestamp lies in the days start..end of a complete window.
WithinDays(ts, window) ==
    ts # <<>> /\ Timestamp(window[1]) <= ts[1] /\ ts[1] < Timestamp(window[2] + 1)

\* Whether record r of the loaded table passes the window of column c: a
\* column without a slicer, or with an incomplete range, filters nothing.
Passes(r, c, window) ==
    (HasCol(df_full, c) /\ Len(window) = 2) => WithinDays(Cell(df_full, r, c), window)

FullWindow == <<MinDate(df_full), MaxDate(df_full)>>

FullWindowsChosen ==
    /\ Sliced
    /\ \A c \in Range(DATE_COLS_LOADED(df_full)) :
          (IF c = ODR_DATE THEN windows.ord ELSE windows.due) = FullWindow

\* C4 as stated: with the window [min_date, max_date] on the date columns,
\* the filtered table is the loaded table.
C4_FullWindowKeepsEveryRecord == FullWindowsChosen => df = df_full

NoNullDate(r) ==
    \A c \in Range(DATE_COLS_LOADED(df_full)) : Cell(df_full, r, c) # <<>>

\* C4 amended: with the window [min_date, max_date] on every loaded date
\* column, the filtered table is the loaded table without the records that
\* have a null date in a loaded date column, in the same order.
C4_FullWindowKeepsDatedRecords ==
    FullWindowsChosen => df = SelectRows(df_full, {r \in RowsOf(df_full) : NoNullDate(r)})

\* The full window chosen on a table with a record dated at noon of
\* max_date, which is kept, and a record with a null date, which is not.
C4_Witness ==
    /\ FullWindowsChosen
    /\ Len(df.rows) > 0
    /\ Len(df.rows) < Len(df_full.rows)
    /\ \E r \in RowsOf(df) :
          Cell(df, r, ODR_DATE) = <<Timestamp(MaxDate(df_full)) + 1>>

\* C5: the filtered table is the loaded table restricted, in order, to the
\* records that pass every complete window: non-null and
\* start <= value < end + 1 day, for ODR DATE and for DUE DATE.
C5_FilteredIffInEveryWindow ==
    Sliced =>
        df = SelectRows(df_full, {r \in RowsOf(df_full) :
                                     /\ Passes(r, ODR_DATE, windows.ord)
                                     /\ Passes(r, DUE_DATE, windows.due)})

\* Both windows complete; a record dated at noon of the end day is kept,
\* and a record inside the order window is dropped by the due window.
C5_Witness ==
    /\ Sliced
    /\ Len(windows.ord) = 2 /\ Len(windows.due) = 2
    /\ \E r \in RowsOf(df) : Cell(df, r, ODR_DATE) = <<Timestamp(windows.ord[2]) + 1>>
    /\ \E r \in RowsOf(df_full) :
          /\ WithinDays(Cell(df_full, r, ODR_DATE), windows.ord)
          /\ ~WithinDays(Cell(df_full, r, DUE_DATE), windows.due)

OtherDateCol(c) == IF c = ODR_DATE THEN DUE_DATE ELSE ODR_DATE
WindowOf(c) == IF c = ODR_DATE THEN windows.ord ELSE windows.due

\* C6: when a loaded date column has no valid date in any record, its filter
\* is disabled: the filtered table is the loaded table restricted by the
\* other column's window alone, and an informational message says so.
C6_NoValidDateDisablesFilter ==
    Sliced =>
        \A c \in Range(DATE_COLS_LOADED(df_full)) :
            ValidDates(df_full, c) = {} =>
                /\ df = SelectRows(df_full,
                           {r \in RowsOf(df_full) :
                               Passes(r, OtherDateCol(c), WindowOf(OtherDateCol(c)))})
                /\ \E m \in messages : m.level = "info"
                /\ \A m \in messages : m.level # "error"

MembersOf(person) == {r \in RowsOf(df) : Cell(df, r, PERSON_COL) = person}

RECURSIVE SumOver(_, _)
SumOver(rows, c) ==
    IF rows = {} THEN 0
    ELSE LET r == CHOOSE x \in rows : TRUE
         IN  Cell(df, r, c) + SumOver(rows \ {r}, c)

\* The percentage is the ratio of the sums over a set of records, 0 when
\* the summed ORD WT is not positive.
IsRatioOfSums(pct, rows) ==
    IF SumOver(rows, ORD_WT) > 0
    THEN IsRatio(pct, SumOver(rows, LATE_DEL) * 100, SumOver(rows, ORD_WT))
    ELSE pct = Zero

\* C7: the late delivery percentage of every person row and of the grand
\* total row is (sum of LATE_DEL) / (sum of ORD WT) * 100 over the member
\* records, and 0 when the summed ORD WT is not positive.
C7_LatePercentIsRatioOfSums ==
    Rendered =>
        /\ \A k \in 1..Len(matrix) :
              IsRatioOfSums(matrix[k].late_del_percent, MembersOf(matrix[k].person))
        /\ IsRatioOfSums(grand_total[1].late_del_percent, RowsOf(df))

\* A person row and a grand total whose percentage differs from the mean of
\* the percentages of their records.
C7_Witness ==
    /\ Rendered
    /\ \E k \in 1..Len(matrix) :
          /\ matrix[k].late_del_percent[1] > 0
          /\ matrix[k].late_del_percent #
                MeanOfRecordPercents(WhereEq(df, PERSON_COL, matrix[k].person))
    /\ grand_total[1].late_del_percent # MeanOfRecordPercents(df)

ItemRows(item) == {r \in RowsOf(df) : Cell(df, r, ITEM_COL) = item}

KnownLeads(item) == {r \in ItemRows(item) : Cell(df, r, LEAD_TIME_COL) # <<>>}

RECURSIVE SumLeads(_)
SumLeads(rows) ==
    IF rows = {} THEN 0
    ELSE LET r == CHOOSE x \in rows : TRUE
         IN  Cell(df, r, LEAD_TIME_COL)[1] + SumLeads(rows \ {r})

\* C8: a record with a null ODR DATE or DUE DATE has a null lead time, and
\* any other record the whole days from ODR DATE to DUE DATE; the lead time
\* summary has one line per item, with the min, max and mean of the item's
\* non-null lead times, and null statistics when it has none.
C8_NullLeadTimeStaysOutOfStatistics ==
    /\ (Loaded /\ HasAll(df_full, <<ODR_DATE, DUE_DATE>>)) =>
          \A r \in RowsOf(df_full) :
              LET odr == Cell(df_full, r, ODR_DATE)
                  due == Cell(df_full, r, DUE_DATE)
                  lead == Cell(df_full, r, LEAD_TIME_COL)
              IN  IF odr = <<>> \/ due = <<>> THEN lead = <<>>
                  ELSE /\ lead # <<>>
                       /\ Days(lead[1]) <= due[1] - odr[1]
                       /\ due[1] - odr[1] < Days(lead[1] + 1)
    /\ (pc = "done" /\ charts.shown) =>
          /\ {line.item : line \in Range(charts.delivery_time_summary)} =
                ColValues(df, ITEM_COL)
          /\ \A line \in Range(charts.delivery_time_summary) :
                LET known == KnownLeads(line.item)
                    leads == {Cell(df, r, LEAD_TIME_COL)[1] : r \in known}
                IN  IF known = {}
                    THEN line.min_lead = <<>> /\ line.max_lead = <<>> /\ line.avg_lead = <<>>
                    ELSE /\ line.min_lead = <<SetMin(leads)>>
                         /\ line.max_lead = <<SetMax(leads)>>
                         /\ line.avg_lead # <<>>
                         /\ IsRatio(line.avg_lead[1], SumLeads(known),
                                    Cardinality(known))

\* An item whose records all have a null lead time beside an item with a
\* null and a non-null lead time, in the rendered summary.
C8_Witness ==
    /\ pc = "done" /\ charts.shown
    /\ HasAll(df, <<ODR_DATE, DUE_DATE>>)
    /\ \E line \in Range(charts.delivery_time_summary) :
          ItemRows(line.item) # {} /\ line.avg_lead = <<>>
    /\ \E r \in RowsOf(df) :
          Cell(df, r, ODR_DATE) # <<>> /\ Cell(df, r, DUE_DATE) = <<>>

\* An item with a null and a non-null lead time, whose statistics are those
\* of the non-null one.
C8_MixedItemReached ==
    /\ pc = "done" /\ charts.shown
    /\ \E line \in Range(charts.delivery_time_summary) :
          /\ KnownLeads(line.item) # {}
          /\ KnownLeads(line.item) # ItemRows(line.item)
          /\ line.avg_lead # <<>>

IsBlank(text) == \A i \in 1..Len(text) : IsSpace(text[i])

ListedReasons ==
    {line.reason : line \in Range(charts.remark_counts)}
    \cup UNION {{entry.reason : entry \in Range(detail.reasons)} :
                   detail \in Range(drilldown)}

\* C9: no blank text (empty or whitespace only) is a key of the remark
\* count or of a person's reason drilldown, and the remark count counts the
\* records with a non-blank reason only; the person rows and the grand
\* total still sum ORD WT, ON_TIME DEL and LATE_DEL over every record,
\* blank reason or not.
C9_BlankReasonIsNoKeyButCounts ==
    Rendered =>
        /\ \A key \in ListedReasons : ~IsBlank(key)
        /\ charts.shown =>
              FieldSum(charts.remark_counts, LAMBDA line : line.count) =
                 Cardinality({r \in RowsOf(df) : ~IsBlank(Cell(df, r, REMARK_COL))})
        /\ \A k \in 1..Len(matrix) :
              /\ MembersOf(matrix[k].person) # {}
              /\ matrix[k].ord_wt = SumOver(MembersOf(matrix[k].person), ORD_WT)
              /\ matrix[k].ontime_del = SumOver(MembersOf(matrix[k].person), ON_TIME_DEL)
              /\ matrix[k].late_del = SumOver(MembersOf(matrix[k].person), LATE_DEL)
        /\ \A r \in RowsOf(df) :
              \E k \in 1..Len(matrix) : matrix[k].person = Cell(df, r, PERSON_COL)
        /\ grand_total[1].ord_wt = SumOver(RowsOf(df), ORD_WT)
        /\ grand_total[1].ontime_del = SumOver(RowsOf(df), ON_TIME_DEL)
        /\ grand_total[1].late_del = SumOver(RowsOf(df), LATE_DEL)

\* An expanded person with a whitespace-only reason and a listed reason,
\* with the charts shown.
C9_Witness ==
    /\ pc = "done" /\ charts.shown
    /\ \E detail \in Range(drilldown) :
          /\ Len(detail.reasons) > 0
          /\ \E r \in MembersOf(detail.person) : Cell(df, r, REMARK_COL) = TxtSpace
    /\ Len(charts.remark_counts) > 0

\* The fetched sheet after header normalization.
Normalized == NormalizeHeader(Frame(source.grid))

IsNormalized(f) ==
    /\ \A i \in 1..Len(f.cols) : Strip(f.cols[i]) = f.cols[i]
    /\ \A i, j \in 1..Len(f.cols) : f.cols[i] = f.cols[j] => i = j

\* C10 as stated: header normalization applied to the normalized table
\* returns the same columns and the same rows.
C10_NormalizeHeaderIsIdempotent ==
    (Loaded /\ IsNormalized(Normalized)) => NormalizeHeader(Normalized) = Normalized

\* C10 amended: the label clean-up of header normalization (strip the
\* labels, keep the first of duplicate labels) is idempotent: applied to the
\* normalized table, and to the loaded table, it returns the same columns
\* and the same rows.
C10_CleanLabelsIsIdempotent ==
    Loaded =>
        /\ IsNormalized(Normalized)
        /\ CleanLabels(Normalized) = Normalized
        /\ CleanLabels(df_full) = df_full

\* A loaded sheet whose header row has a padded label that duplicates an
\* earlier label once stripped, so that normalization dropped a column.
C10_Witness ==
    /\ Loaded
    /\ ~IsEmpty(df_full)
    /\ Len(Normalized.cols) < Len(source.grid[2])
    /\ \E i \in 1..Len(source.grid[2]) : Strip(source.grid[2][i]) # source.grid[2][i]

\* The positions of the sheet's header row whose stripped label is c.
SheetColumns(c) ==
    IF source.status = "ok" /\ Len(source.grid) >= 2
    THEN {i \in 1..Len(source.grid[2]) : Strip(source.grid[2][i]) = c}
    ELSE {}

\* No value of column c of the loaded table was computed: the column is absent,
\* or it is a column of the sheet itself, with the sheet's cells.
NotComputed(c) ==
    HasCol(df_full, c) =>
        \E i \in SheetColumns(c) :
            \A r \in RowsOf(df_full) : Cell(df_full, r, c) = source.grid[r + 2][i]

NothingAggregated ==
    /\ matrix = <<>>
    /\ drilldown = <<>>
    /\ grand_total = <<>>
    /\ charts = NoCharts

\* C11: when the loaded table lacks any of ORD WT, ON_TIME DEL and LATE_DEL,
\* no PENDING ORD and no LATE_DEL_% is computed for any record (the columns
\* are absent unless the sheet has columns of these names itself), an error
\* naming exactly the missing columns is shown, and the cycle never gets
\* past the required-columns check: no person row, no detail, no grand total
\* and no chart is produced, and a cycle at that check stops there.
C11_MissingAmountColumnStopsTheCycle ==
    (Loaded /\ df_full # EmptyFrame /\ Missing(df_full, EXPECTED_NUMERIC_COLS) # <<>>) =>
        /\ NotComputed(PENDING_ORD)
        /\ NotComputed(LATE_DEL_PCT)
        /\ SheetColumns(PENDING_ORD) = {} => ~HasCol(df_full, PENDING_ORD)
        /\ SheetColumns(LATE_DEL_PCT) = {} => ~HasCol(df_full, LATE_DEL_PCT)
        /\ Msg("error", "required numeric columns missing",
               Missing(df_full, EXPECTED_NUMERIC_COLS)) \in messages
        /\ pc \in {"loaded", "filtered", "stopped"}
        /\ NothingAggregated
        /\ pc = "filtered" => ~HasAll(df, REQUIRED_MATRIX_COLS)

\* Records were loaded from a sheet without LATE_DEL and ON_TIME DEL, and the
\* cycle has stopped at the required-columns check.
C11_Witness ==
    /\ pc = "stopped"
    /\ Len(df_full.rows) = 2
    /\ Missing(df_full, EXPECTED_NUMERIC_COLS) = <<ON_TIME_DEL, LATE_DEL>>
    /\ ~HasCol(df_full, PENDING_ORD)
    /\ Msg("error", "required calculation columns are missing", <<>>) \in messages

\* The sheet has a PENDING ORD column of its own and no LATE_DEL: the cycle
\* has stopped all the same.
C11_OwnPendingColumnReached ==
    /\ pc = "stopped"
    /\ Len(df_full.rows) > 0
    /\ HasCol(df_full, PENDING_ORD)
    /\ Missing(df_full, EXPECTED_NUMERIC_COLS) = <<LATE_DEL>>

\* The step of a script run that calls load_data, and the step that presses
\* the refresh button.
LoadStep == pc = "start" /\ pc' = "loaded"

RefreshStep == pc = "loaded" /\ pc' = "start"

\* C12: a refresh empties the cache, and the first call of load_data after it
\* runs the body again and returns the table of the source as it is then,
\* not the entry the refresh cleared; a call that finds an entry younger than
\* 600 seconds returns that entry's table and messages without running the
\* body and leaves the entry as it is, whatever the source has become; any
\* other call runs the body and caches what it returns.
C12_RefreshInvalidatesElseCacheServes ==
    [][/\ RefreshStep => (cache' = <<>> /\ last_load'.cleared = cache /\ cache # <<>>)
       /\ (LoadStep /\ last_load.cleared # <<>>) => cache = <<>>
       /\ LoadStep =>
             IF cache # <<>> /\ now - cache[1].at < 600
             THEN /\ ~last_load'.fetched
                  /\ df_full' = cache[1].df
                  /\ messages' = cache[1].messages
                  /\ cache' = cache
             ELSE /\ last_load'.fetched
                  /\ df_full' = LoadResult(client, source).df
                  /\ messages' = LoadResult(client, source).messages
                  /\ cache' = <<[df |-> df_full', messages |-> messages', at |-> now]>>
      ]_vars

\* The load after a refresh has fetched a table that differs from the one
\* the refresh cleared.
C12_Witness ==
    /\ pc = "loaded"
    /\ last_load.cleared # <<>>
    /\ last_load.fetched
    /\ ~IsEmpty(df_full)
    /\ df_full # last_load.cleared[1].df

\* Without a refresh a load has returned the cached table although the
\* source has changed since.
C12_StaleTableServedReached ==
    /\ pc = "loaded"
    /\ ~last_load.fetched
    /\ last_load.cleared = <<>>
    /\ now > cache[1].at
    /\ df_full # LoadResult(client, source).df

\* The loaded table holds the ten built-in records, in their order, each with
\* its derived metrics.
FixtureLoaded ==
    /\ Len(df_full.rows) = Len(FIXTURE_ROWS)
    /\ HasAll(df_full, STD_HEADER \o <<PENDING_ORD, LATE_DEL_PCT, LEAD_TIME_COL>>)
    /\ \A r \in RowsOf(df_full) :
          /\ Cell(df_full, r, PERSON_COL) = FIXTURE_ROWS[r][1]
          /\ Cell(df_full, r, ORD_NO) = FIXTURE_ROWS[r][9]
          /\ Cell(df_full, r, PENDING_ORD) =
                Max(0, Cell(df_full, r, ORD_WT) - Cell(df_full, r, ON_TIME_DEL)
                       - Cell(df_full, r, LATE_DEL))
          /\ Cell(df_full, r, LEAD_TIME_COL) # <<>>
    \* John's P1003: 2000.0 ordered, nothing on time, 1500.0 late, due 9 days
    \* after the order.
    /\ Cell(df_full, 3, ORD_WT) = 20000
    /\ Cell(df_full, 3, PENDING_ORD) = 5000
    /\ IsRatio(Cell(df_full, 3, LATE_DEL_PCT), 75, 1)
    /\ Cell(df_full, 3, LEAD_TIME_COL) = <<9>>

\* C13: without credentials load_data returns the ten built-in records with
\* PENDING ORD, LATE_DEL_% and LEAD TIME (DAYS), and tells that dummy data
\* is used; when the spreadsheet or the worksheet is not found, or the fetch
\* raises anything else, load_data shows an error and returns the empty
\* table; and a cycle whose loaded table is empty, fetched or cached, can
\* only stop: it filters nothing and aggregates nothing.
C13_EverySourceOutcomeIsHandled ==
    /\ (Loaded /\ client = "none") =>
          /\ FixtureLoaded
          /\ Msg("info", "using dummy data", <<>>) \in messages
          /\ pc # "stopped"
    /\ (Loaded /\ last_load.fetched /\ client = "ok" /\ source.status # "ok") =>
          /\ df_full = EmptyFrame
          /\ \E m \in messages : m.level = "error" /\ m.text = source.status
    /\ (Loaded /\ IsEmpty(df_full)) =>
          /\ pc \in {"loaded", "stopped"}
          /\ pc = "loaded" => (ENABLED StopIfEmpty /\ ~ENABLED DateFilter)
          /\ pc = "stopped" => Msg("error", "the dataframe is empty", <<>>) \in messages
          /\ df = EmptyFrame
          /\ windows = NoWindows
          /\ NothingAggregated

\* The worksheet was not found: the cycle has shown the error and stopped.
C13_Witness ==
    /\ pc = "stopped"
    /\ client = "ok"
    /\ last_load.fetched
    /\ source.status = "worksheet_not_found"
    /\ df_full = EmptyFrame
    /\ Msg("error", "worksheet_not_found", <<>>) \in messages

\* Without credentials the cycle has run to its end over the built-in records.
C13_FixtureReached == pc = "done" /\ client = "none" /\ Len(matrix) = 4

\* C15: every render cycle offers the refresh control once the table is
\* loaded, also when the cached table is empty, so that the cache can be
\* cleared without waiting for the entry to expire.
C15_RefreshOfferedInEveryCycle == pc = "loaded" => ENABLED RefreshData

\* What holds instead: an empty cached table leaves the cache only by
\* expiring, 600 seconds after it was fetched.
C15_EmptyEntryLeavesOnlyByExpiry ==
    [][(cache # <<>> /\ IsEmpty(cache[1].df) /\ cache' # cache) =>
          (LoadStep /\ now - cache[1].at >= 600)]_vars

\* A cycle has stopped on an empty table that came from the cache.
C15_CachedEmptyTableReached ==
    pc = "stopped" /\ ~last_load.fetched /\ IsEmpty(df_full) /\ now - cache[1].at < 600

\* The order numbers an expander of the drilldown shows.
OrdersShown(entry) ==
    {Cell(entry.orders, i, ORD_NO) : i \in RowsOf(entry.orders)}

\* The order numbers of the person's records whose stripped reason is the
\* given one.
OrdersWithReason(person, reason) ==
    {Cell(df, r, ORD_NO) :
        r \in {m \in MembersOf(person) : Strip(Cell(df, m, REMARK_COL)) = reason}}

\* C14: in the drilldown of an expanded person every listed reason shows
\* exactly the person's records whose stripped reason equals it, so it shows
\* at least one order, and every record of the person with a non-blank
\* reason is shown under exactly one listed reason.
C14_ReasonShowsItsRecords ==
    (Rendered /\ HasAll(df, <<ORD_NO, REMARK_COL>>)) =>
        \A detail \in Range(drilldown) :
            /\ \A entry \in Range(detail.reasons) :
                  /\ OrdersShown(entry) = OrdersWithReason(detail.person, entry.reason)
                  /\ Len(entry.orders.rows) = Cardinality(OrdersShown(entry))
                  /\ Len(entry.orders.rows) >= 1
            /\ \A r \in MembersOf(detail.person) :
                  ~IsBlank(Cell(df, r, REMARK_COL)) =>
                     Cardinality({k \in 1..Len(detail.reasons) :
                                     Cell(df, r, ORD_NO) \in OrdersShown(detail.reasons[k])}) = 1

\* An expanded person with a record whose reason is padded.
C14_PaddedReasonReached ==
    /\ Rendered
    /\ \E detail \in Range(drilldown) :
          /\ Len(detail.reasons) > 0
          /\ \E r \in MembersOf(detail.person) : Cell(df, r, REMARK_COL) = TxtRainPadded

====
